---- MODULE Spec2Model ----
(***************************************************************************)
(* Model of the monorepo build driver (scripts/build-packages.ts, here     *)
(* src/unnamed/part_001) together with its default configuration           *)
(* (build.config.ts, here src/unnamed/part_000).                           *)
(*                                                                         *)
(* Representation.  A path is the sequence of its segments, an absolute    *)
(* path starting with the segment "/".  A package name is the sequence of  *)
(* the pieces that '/' separates ("@lx/utils" is <<"@lx", "utils">>).  A   *)
(* JavaScript object is a function on its keys; the value undefined (and   *)
(* the empty string, which the code treats alike with !x and ||) is <<>>.  *)
(* The bundler (vite.build) is outside the program: an invocation is       *)
(* recorded when it starts and completes with either outcome.  Logging and *)
(* the output directory (outDir), which no behaviour below depends on, are *)
(* left out.                                                               *)
(***************************************************************************)
EXTENDS Integers, Sequences, FiniteSets, TLC

VARIABLES fs, opts, configModule, config, pc, pkgDirs, pkgIdx, cur,
          compEntry, calls, inflight, error, exitCode

vars == <<fs, opts, configModule, config, pc, pkgDirs, pkgIdx, cur,
          compEntry, calls, inflight, error, exitCode>>

\* ------------------------------------------------------------------ bounds

\* number of directories under packages/ that the file systems range over
NumPkgs == 2
\* longest --formats list that is requested on the command line
MaxFormats == 2

\* ----------------------------------------------------------------- helpers

Undefined == <<>>

Range(s) == {s[i] : i \in 1..Len(s)}

\* obj.k, undefined when the key is missing (also obj?.k on undefined)
Get(obj, k) == IF k \in DOMAIN obj THEN obj[k] ELSE Undefined

\* { ...a, ...b }: every key of b wins over the same key of a
Spread(a, b) ==
  [k \in (DOMAIN a) \cup (DOMAIN b) |-> IF k \in DOMAIN b THEN b[k] ELSE a[k]]

\* path.isAbsolute
IsAbsolute(p) == Len(p) > 0 /\ p[1] = "/"

RECURSIVE Norm(_, _)
\* path.normalize: "." dropped, ".." taking back the segment before it
Norm(acc, rest) ==
  IF rest = <<>> THEN acc
  ELSE IF Head(rest) = "." THEN Norm(acc, Tail(rest))
  ELSE IF Head(rest) = ".."
  THEN IF Len(acc) > 0 /\ acc[Len(acc)] \notin {"/", ".."}
       THEN Norm(SubSeq(acc, 1, Len(acc) - 1), Tail(rest))
       ELSE IF Len(acc) > 0 /\ acc[Len(acc)] = "/" THEN Norm(acc, Tail(rest))
       ELSE Norm(Append(acc, ".."), Tail(rest))
  ELSE Norm(Append(acc, Head(rest)), Tail(rest))

Normalize(p) == Norm(<<>>, p)

\* path.join: the segments of both, normalized
Join(a, b) == Normalize(a \o b)

\* path.basename
Basename(p) == p[Len(p)]

\* fs.existsSync: true of files and of directories alike
ExistsSync(f, p) == Normalize(p) \in f.files \cup f.dirs

\* fs.readdirSync(d): the names of the immediate entries of d, of any kind
ReaddirSync(f, d) ==
  {p[Len(p)] : p \in {q \in f.files \cup f.dirs :
                        Len(q) = Len(d) + 1 /\ SubSeq(q, 1, Len(d)) = d}}

\* Set.add followed by Array.from: insertion order, no duplicates
SetAdd(s, x) == IF x \in Range(s) THEN s ELSE Append(s, x)

RECURSIVE SetAddAll(_, _)
SetAddAll(s, xs) ==
  IF xs = <<>> THEN s ELSE SetAddAll(SetAdd(s, Head(xs)), Tail(xs))

\* ----------------------------------------------------- default configuration

\* build.config.ts: external, as the rule it applies to a dependency name
DefaultExternal(depName) ==
  IF depName = <<"vue">> THEN TRUE
  ELSE ~(Len(depName) >= 2 /\ depName[1] = "@lx")

\* config.external?.(d) for the predicates a configuration can carry
CallExternal(tag, depName) ==
  CASE tag = "default" -> DefaultExternal(depName)
    [] tag = "all"     -> TRUE
    [] tag = "never"   -> FALSE
    [] OTHER           -> FALSE   \* "undefined": config.external?.(d) is undefined

RECURSIVE SelectExternal(_, _)
\* the names d of xs, in order, for which config.external?.(d) is truthy
SelectExternal(xs, tag) ==
  IF xs = <<>> THEN <<>>
  ELSE IF CallExternal(tag, Head(xs))
       THEN <<Head(xs)>> \o SelectExternal(Tail(xs), tag)
       ELSE SelectExternal(Tail(xs), tag)

DefaultGlobals == (<<"vue">> :> "Vue") @@ (<<"@vueuse", "core">> :> "VueUse")

defaultConfig ==
  [formats    |-> <<"es", "cjs", "umd">>,
   outRoot    |-> <<"dist">>,
   entryFiles |-> << <<"index.ts">>, <<"src", "index.ts">>, <<"src", "index.tsx">> >>,
   globals    |-> DefaultGlobals,
   external   |-> "default",
   vite       |-> [build |-> [minify |-> "esbuild", sourcemap |-> TRUE,
                              reportCompressedSize |-> FALSE]],
   vue        |-> [isProduction |-> TRUE]]

\* ------------------------------------------------- the inputs: file systems

\* process.cwd()
Root == <<"/", "repo">>

\* path.join(root, 'packages')
packagesDir == Join(Root, <<"packages">>)

\* the directory names the file systems place under packages/
DirNames == <<"components", "utils", "hooks", "icons">>

PkgDirOf(i) == Join(packagesDir, <<DirNames[i]>>)

\* a file outside every package, for an absolute "main"
SharedEntry == Join(Root, <<"shared", "entry.js">>)

\* the --config argument used when one is given, and the file it resolves to
UserConfigArg == <<"build.user.ts">>

Prefixes(p) == {SubSeq(p, 1, k) : k \in 1..(Len(p) - 1)}

Perms(S) == {s \in [1..Cardinality(S) -> S] : Range(s) = S}

\* package.json contents (after JSON.parse); dependency maps as Object.keys
Manifest(name, module, main, deps, peers) ==
  [name |-> name, module |-> module, main |-> main,
   dependencies |-> deps, peerDependencies |-> peers]

PlainManifest(dn) == Manifest(<<"@lx", dn>>, <<>>, <<>>, <<>>, <<>>)

Manifests(dn) ==
  { PlainManifest(dn),
    Manifest(<<"@lx", dn>>, <<".", "lib", "main.js">>, <<"index.js">>,
             << <<"vue">>, <<"@lx", "hooks">>, <<"lodash">> >>, << <<"vue">> >>),
    Manifest(<<"@lx", dn>>, <<"lib", "missing.js">>, <<"src", "index.ts">>,
             << <<"lodash">>, <<"@lx", "core">>, <<"@lx", "hooks">> >>,
             << <<"@lx", dn>>, <<"@lx", "core">> >>),
    Manifest(<<>>, <<>>, SharedEntry,
             << <<"@lx", "core">>, <<"vue">> >>, <<>>),
    Manifest(<<"@lx", dn>>, <<>>, <<"dist", "none.js">>,
             << <<"@lx", dn>>, <<"lodash">> >>, << <<"lodash">> >>) }

\* what a package directory holds besides package.json (paths relative to it)
Layouts ==
  { {},
    { <<"index.ts">> },
    { <<"lib", "main.js">>, <<"index.js">>, <<"index.ts">> },
    { <<"src", "index.ts">>, <<"vite.config.ts">> },
    { <<"index.js">>, <<"index.cjs">> },
    { <<"index.mjs", "part.js">>, <<"README.md">> } }

\* what a component directory can hold
ComponentFiles ==
  { <<"index.ts">>, <<"Button.vue">>, <<"src", "Button.vue">>,
    <<"src", "index.ts">>, <<"index.js">> }

\* The file system with the given files; every ancestor of a file, and every
\* directory of extraDirs, is a directory.  pkgJson maps a package.json path to
\* its parsed contents, listing is the order in which readdirSync lists
\* packages/.
MkFs(files, extraDirs, pkgJson, listing) ==
  [files   |-> files,
   dirs    |-> extraDirs \cup UNION {Prefixes(p) : p \in files \cup extraDirs},
   pkgJson |-> pkgJson,
   listing |-> listing]

\* one package directory: its files (absolute) and the manifest, if any
PkgFiles(i, layout, hasManifest) ==
  {Join(PkgDirOf(i), r) : r \in layout}
    \cup (IF hasManifest THEN {Join(PkgDirOf(i), <<"package.json">>)} ELSE {})

\* a per-package choice
PkgChoice(layout, manifest, hasManifest) ==
  [layout |-> layout, manifest |-> manifest, hasManifest |-> hasManifest]

IndexOfDir(d) == CHOOSE i \in 1..NumPkgs : PkgDirOf(i) = d

\* the file system holding package i as ch[i] (i in 1..NumPkgs), listed in the
\* order `listing`, with the user configuration file present or not
FsOfPackages(ch, listing, withConfig, extraDirs) ==
  MkFs(UNION {PkgFiles(i, ch[i].layout, ch[i].hasManifest) : i \in 1..NumPkgs}
         \cup {SharedEntry}
         \cup (IF withConfig THEN {Join(Root, UserConfigArg)} ELSE {}),
       {PkgDirOf(i) : i \in 1..NumPkgs} \cup extraDirs,
       [d \in {PkgDirOf(i) : i \in {j \in 1..NumPkgs : ch[j].hasManifest}}
          |-> ch[IndexOfDir(d)].manifest],
       listing)

\* a file system without packages: only the root, or root and packages/
FsBare(withPackagesDir) ==
  MkFs({SharedEntry}, IF withPackagesDir THEN {packagesDir} ELSE {Root},
       [d \in {} |-> <<>>], <<>>)

\* ------------------------------------------ the inputs: configuration modules

\* what `await import(absPath)` yields: it throws, or has this default export
UserModules ==
  { [throws |-> TRUE, default |-> <<>>],
    [throws |-> FALSE,
     default |-> [entryFiles |-> << <<"lib", "main.js">>, <<"index.js">> >>,
                  external |-> "never"]],
    [throws |-> FALSE,
     default |-> [external |-> "all",
                  globals |-> (<<"lodash">> :> "_"),
                  vite |-> [build |->
                    [lib |-> [entry |-> <<"user.ts">>],
                     rollupOptions |->
                       [external |-> << <<"react">> >>,
                        treeshake |-> FALSE,
                        output |-> [globals |-> (<<"vue">> :> "MyVue"),
                                    banner |-> "/* lx */"]]]]]],
    [throws |-> FALSE,
     default |-> [external |-> "undefined",
                  formats |-> <<"umd">>,
                  vite |-> [build |->
                    [rollupOptions |-> [output |-> [banner |-> "/* lx */"]]]]]],
    [throws |-> FALSE,
     default |-> [vite |-> [logLevel |-> "silent"]]] }

NoModule == [throws |-> TRUE, default |-> <<>>]

\* [withConfig: is --config given, present: does the file exist, module]
ConfigInputs ==
  { [given |-> FALSE, present |-> FALSE, module |-> NoModule],
    [given |-> TRUE,  present |-> FALSE, module |-> NoModule] }
  \cup { [given |-> TRUE, present |-> TRUE, module |-> m] : m \in UserModules }

\* --------------------------------------------- the inputs: command lines

FormatNames == {"es", "umd"}

\* the --formats lists: none given (<<>>), or 1..MaxFormats names
FormatLists ==
  {<<>>} \cup UNION {[1..n -> FormatNames] : n \in 1..MaxFormats}

Opts(pkg, component, formats, cfg) ==
  [pkg |-> pkg, component |-> component, formats |-> formats,
   config |-> IF cfg THEN UserConfigArg ELSE <<>>]

\* --------------------------------------------------------- the input space

PlainChoice(i) == PkgChoice({<<"index.ts">>}, PlainManifest(DirNames[i]), TRUE)

DefaultListing == [i \in 1..NumPkgs |-> DirNames[i]]

\* --pkg <first package>, by name or by directory name: the first package
\* ranges over every layout and manifest, the others are plain
SinglePackageInputs ==
  { [fs |-> FsOfPackages(
               [i \in 1..NumPkgs |->
                  IF i = 1 THEN PkgChoice(l, m, TRUE) ELSE PlainChoice(i)],
               DefaultListing, c.present, {}),
     opts |-> Opts(pk, <<>>, fl, c.given),
     module |-> c.module] :
    l \in Layouts, m \in Manifests(DirNames[1]),
    pk \in {<<"@lx", DirNames[1]>>, <<DirNames[1]>>},
    fl \in FormatLists, c \in ConfigInputs }

\* what a package directory is in an all-packages run
SmallChoices(i) ==
  { PkgChoice({<<"index.ts">>}, PlainManifest(DirNames[i]), FALSE),
    PlainChoice(i),
    PkgChoice({}, PlainManifest(DirNames[i]), TRUE),
    PkgChoice({<<"lib", "main.js">>, <<"vite.config.ts">>},
              Manifest(<<"@lx", DirNames[i]>>, <<"lib", "main.js">>, <<>>,
                       << <<"lodash">> >>, << <<"vue">> >>), TRUE) }

\* no --pkg and no --component, or a --pkg that names no package
AllPackagesInputs ==
  { [fs |-> FsOfPackages(ch, ls, FALSE, {}),
     opts |-> Opts(pk, <<>>, fl, FALSE),
     module |-> NoModule] :
    ch \in {c \in [1..NumPkgs -> UNION {SmallChoices(i) : i \in 1..NumPkgs}] :
              \A i \in 1..NumPkgs : c[i] \in SmallChoices(i)},
    ls \in Perms({DirNames[i] : i \in 1..NumPkgs}),
    pk \in {<<>>},
    fl \in FormatLists }
  \cup
  { [fs |-> FsOfPackages([i \in 1..NumPkgs |-> PlainChoice(i)],
                         DefaultListing, FALSE, {}),
     opts |-> Opts(<<"@lx", "nope">>, <<>>, fl, FALSE),
     module |-> NoModule] : fl \in FormatLists }

ComponentsManifest ==
  Manifest(<<"@lx", DirNames[1]>>, <<>>, <<"index.ts">>,
           << <<"lodash">>, <<"@lx", "utils">> >>, << <<"vue">> >>)

\* --component button: the component directory is missing, or holds any
\* subset of ComponentFiles
ComponentInputs ==
  { [fs |-> FsOfPackages(
               [i \in 1..NumPkgs |->
                  IF i = 1
                  THEN PkgChoice({<<"index.ts">>}
                                   \cup {Join(<<"button">>, f) : f \in files},
                                 ComponentsManifest, TRUE)
                  ELSE PlainChoice(i)],
               DefaultListing, c.present,
               IF hasDir THEN {Join(PkgDirOf(1), <<"button">>)} ELSE {}),
     opts |-> Opts(<<>>, <<"button">>, fl, c.given),
     module |-> c.module] :
    files \in SUBSET ComponentFiles, hasDir \in BOOLEAN,
    fl \in FormatLists, c \in ConfigInputs }

\* packages/ is missing, or is there without packages/components
BareInputs ==
  { [fs |-> FsBare(b), opts |-> Opts(<<>>, cn, <<>>, FALSE), module |-> NoModule] :
    b \in BOOLEAN, cn \in {<<>>, <<"button">>} }

Inputs ==
  SinglePackageInputs \cup AllPackagesInputs \cup ComponentInputs \cup BareInputs

\* ------------------------------------------------------------ buildPackage

\* pkgJson.name || path.basename(pkgDir)
PkgNameOf(pkgDir, pkgJson) ==
  IF Get(pkgJson, "name") # <<>> THEN Get(pkgJson, "name")
  ELSE <<Basename(pkgDir)>>

\* pkgName.includes('/') ? pkgName.split('/').pop() : pkgName
ShortNameOf(pkgName) ==
  IF Len(pkgName) > 1 THEN pkgName[Len(pkgName)] ELSE pkgName[1]

\* opts.formats || config.formats
FormatsOf(o, cfg) == IF o.formats # <<>> THEN o.formats ELSE cfg.formats

\* faulty variant: main is tried before module
TryEntryCandidatesMainFirst(pkgJson, cfg) ==
  <<Get(pkgJson, "main"), Get(pkgJson, "module")>> \o cfg.entryFiles

\* tryEntryCandidates
TryEntryCandidates(pkgJson, cfg) ==
  <<Get(pkgJson, "module"), Get(pkgJson, "main")>> \o cfg.entryFiles

\* path.isAbsolute(cand) ? cand : path.join(pkgDir, cand)
CandidatePath(pkgDir, cand) ==
  IF IsAbsolute(cand) THEN cand ELSE Join(pkgDir, cand)

RECURSIVE FirstExisting(_, _, _)
\* the loop over the candidates: falsy ones skipped, the first that exists taken
FirstExisting(f, pkgDir, cands) ==
  IF cands = <<>> THEN Undefined
  ELSE IF Head(cands) # <<>> /\ ExistsSync(f, CandidatePath(pkgDir, Head(cands)))
       THEN CandidatePath(pkgDir, Head(cands))
       ELSE FirstExisting(f, pkgDir, Tail(cands))

\* the names /^index\.(ts|js|mjs|cjs|tsx)$/ matches
IndexNames == {"index.ts", "index.js", "index.mjs", "index.cjs", "index.tsx"}

\* The values `entry` can have after the candidate loop and the fallback.
\* files.find takes the first match in the order readdirSync lists the
\* directory, which the platform decides: any match can be the one.
ResolveEntry(f, pkgDir, pkgJson, cfg) ==
  LET first == FirstExisting(f, pkgDir, TryEntryCandidates(pkgJson, cfg))
      idxs  == ReaddirSync(f, pkgDir) \cap IndexNames
  IN  IF first # Undefined THEN {first}
      ELSE IF idxs # {} THEN {Join(pkgDir, <<idx>>) : idx \in idxs}
      ELSE {Undefined}

\* faulty variant: the missing entry is not noticed
EntryMissingNever(entry) == FALSE

\* if (!entry) throw ...
EntryMissing(entry) == entry = Undefined

\* faulty variant: the predicate is applied to the peer dependencies too
CollectExternalsPeersFiltered(pkgJson, cfg) ==
  SetAddAll(SetAddAll(<<>>, SelectExternal(Get(pkgJson, "peerDependencies"),
                                           cfg.external)),
            SelectExternal(Get(pkgJson, "dependencies"), cfg.external))

\* collect externals: Array.from(externals)
CollectExternals(pkgJson, cfg) ==
  SetAddAll(SetAddAll(<<>>, Get(pkgJson, "peerDependencies")),
            SelectExternal(Get(pkgJson, "dependencies"), cfg.external))

\* configFilePath
ConfigFilePath(f, pkgDir) ==
  IF ExistsSync(f, Join(pkgDir, <<"vite.config.ts">>))
  THEN Join(pkgDir, <<"vite.config.ts">>) ELSE Undefined

\* buildOptions for one format (outDir, which nothing below reads, left out)
BuildOptions(cfg, entry, shortName, format, externals) ==
  LET build  == Get(Get(cfg, "vite"), "build")
      rollup == Get(build, "rollupOptions")
      output == Get(rollup, "output")
  IN  Spread(build,
        [lib |-> [entry |-> entry, name |-> shortName, formats |-> <<format>>,
                  fileName |-> <<shortName, "js">>],
         rollupOptions |->
           Spread(rollup,
             [external |-> externals,
              output |-> Spread([globals |-> cfg.globals], output)])])

\* optsForVite, with what the run was for
Invocation(b, format) ==
  [configFile |-> b.configFile, root |-> b.pkgDir,
   plugins |-> <<[vue |-> config.vue]>>,
   build |-> BuildOptions(config, b.entry, b.shortName, format, b.externals),
   format |-> format, pkgName |-> b.pkgName, pkgJson |-> b.pkgJson,
   status |-> "running"]

\* the locals of buildPackage before it has run
NoBuild ==
  [pkgDir |-> <<>>, pkgJson |-> <<>>, pkgName |-> <<>>, shortName |-> "",
   formats |-> <<>>, entry |-> <<>>, externals |-> <<>>, configFile |-> <<>>,
   fmtIdx |-> 0]

\* a call buildPackage(pkgDir, pkgJson, opts, config) about to run
CallBuild(pkgDir, pkgJson) ==
  [NoBuild EXCEPT !.pkgDir = pkgDir, !.pkgJson = pkgJson]

NoError == [kind |-> "none", name |-> <<>>]

Throw(kind, name) ==
  /\ error' = [kind |-> kind, name |-> name]
  /\ pc' = "throwing"

\* ---------------------------------------------------- buildSingleComponent

\* f.endsWith('.vue'), on the names the file systems hold
EndsWithVue(name) == name \in {"Button.vue"}

\* path.join(packagesDir, 'components')
componentsDir == Join(packagesDir, <<"components">>)

\* `entry` after the search of index.ts and of a .vue name: files.find takes
\* the first .vue name readdirSync(compDir) lists, any of them
ComponentEntryAfterVue(f, compDir) ==
  LET first    == Join(compDir, <<"index.ts">>)
      vueFiles == {n \in ReaddirSync(f, compDir) : EndsWithVue(n)}
  IN  IF ~ExistsSync(f, first) /\ vueFiles # {}
      THEN {Join(compDir, <<"src", v>>) : v \in vueFiles}
      ELSE {first}

\* `entry` after the search of src/index.ts
ComponentEntryAfterAlt(f, compDir, entry) ==
  LET alt == Join(compDir, <<"src", "index.ts">>)
  IN  IF ~ExistsSync(f, entry) /\ ExistsSync(f, alt) THEN alt ELSE entry

\* the values `entry` can have at the end of the component search
ComponentEntry(f, compDir) ==
  {ComponentEntryAfterAlt(f, compDir, e) : e \in ComponentEntryAfterVue(f, compDir)}

\* JSON.parse(fs.readFileSync(path.join(dir, 'package.json'), 'utf8'))
ReadPkgJson(f, dir) == f.pkgJson[dir]

\* faulty variant: the component inherits the components package's manifest
TmpPkgJsonFromPackage(componentName) ==
  Spread(ReadPkgJson(fs, componentsDir),
         [name |-> <<"@lx">> \o componentName, version |-> "0.0.0"])

\* tmpPkgJson
TmpPkgJson(componentName) ==
  [name |-> <<"@lx">> \o componentName, version |-> "0.0.0"]

\* -------------------------------------------------------------------- main

\* pkgDirs: the directories of packages/ that hold a package.json
PkgDirsOf(f) ==
  LET all == [i \in 1..Len(f.listing) |-> Join(packagesDir, <<f.listing[i]>>)]
      IsPkg(d) == d \in f.dirs /\ ExistsSync(f, Join(d, <<"package.json">>))
  IN  SelectSeq(all, IsPkg)

\* pkgDirs.find(d => pj.name === opts.pkg || path.basename(d) === opts.pkg)
FindTarget(f, ds, pkg) ==
  LET hits == {i \in 1..Len(ds) :
                 Get(ReadPkgJson(f, ds[i]), "name") = pkg \/ <<Basename(ds[i])>> = pkg}
  IN  IF hits = {} THEN Undefined
      ELSE ds[CHOOSE i \in hits : \A j \in hits : i <= j]

\* faulty variant: the build is not awaited, the loop goes on at once
AfterStartNoAwait == "formatLoop"

\* where buildPackage continues once build(optsForVite) has been called:
\* `await build(...)` suspends it until the bundler completes
AfterStart == "awaitBuild"

\* faulty variant: the catch swallows the error and the loop goes on
AfterRejectSwallowed == "formatLoop"

\* where a rejected build leads: the catch logs and rethrows
AfterReject == "throwing"

\* ----------------------------------------------------------------- actions

Init ==
  \E inp \in Inputs :
    /\ fs = inp.fs
    /\ opts = inp.opts
    /\ configModule = inp.module
    /\ config = <<>>
    /\ pc = "loadConfig"
    /\ pkgDirs = <<>>
    /\ pkgIdx = 0
    /\ cur = NoBuild
    /\ compEntry = <<>>
    /\ calls = <<>>
    /\ inflight = 0
    /\ error = NoError
    /\ exitCode = -1

\* loadConfig(opts.config)
LoadConfig ==
  /\ pc = "loadConfig"
  /\ LET absPath == IF IsAbsolute(opts.config) THEN opts.config
                    ELSE Join(Root, opts.config)
     IN  IF opts.config = <<>>
         THEN config' = defaultConfig /\ pc' = "main" /\ error' = error
         ELSE IF ~ExistsSync(fs, absPath)
         THEN Throw("ConfigNotFound", absPath) /\ config' = config
         ELSE /\ config' = IF configModule.throws THEN defaultConfig
                           ELSE Spread(defaultConfig, configModule.default)
              /\ pc' = "main"
              /\ error' = error
  /\ UNCHANGED <<fs, opts, configModule, pkgDirs, pkgIdx, cur, compEntry,
                 calls, inflight, exitCode>>

\* main, from the packages/ check to the call it dispatches to
Main ==
  /\ pc = "main"
  /\ IF ~ExistsSync(fs, packagesDir)
     THEN /\ error' = [kind |-> "PackagesDirNotFound", name |-> packagesDir]
          /\ exitCode' = 1
          /\ pc' = "exited"
          /\ UNCHANGED <<pkgDirs, pkgIdx, cur>>
     ELSE IF opts.component # <<>>
     THEN /\ IF ~ExistsSync(fs, componentsDir)
             THEN Throw("ComponentsPackageNotFound", componentsDir)
             ELSE pc' = "buildSingleComponent" /\ error' = error
          /\ UNCHANGED <<pkgDirs, pkgIdx, cur, exitCode>>
     ELSE /\ pkgDirs' = PkgDirsOf(fs)
          /\ IF opts.pkg # <<>>
             THEN LET target == FindTarget(fs, PkgDirsOf(fs), opts.pkg)
                  IN  IF target = Undefined
                      THEN Throw("PackageNotFound", opts.pkg)
                           /\ UNCHANGED <<pkgIdx, cur>>
                      ELSE /\ cur' = CallBuild(target, ReadPkgJson(fs, target))
                           /\ pc' = "buildPackage"
                           /\ UNCHANGED <<pkgIdx, error>>
             ELSE /\ pkgIdx' = 1
                  /\ pc' = "nextPackage"
                  /\ UNCHANGED <<cur, error>>
          /\ exitCode' = exitCode
  /\ UNCHANGED <<fs, opts, configModule, config, compEntry, calls, inflight>>

\* buildSingleComponent, up to its call of buildPackage
BuildSingleComponent ==
  /\ pc = "buildSingleComponent"
  /\ LET compDir == Join(componentsDir, opts.component)
     IN  IF ~ExistsSync(fs, compDir)
         THEN Throw("ComponentNotFound", opts.component)
              /\ UNCHANGED <<cur, compEntry>>
         ELSE \E entry \in ComponentEntry(fs, compDir) :
                /\ compEntry' = entry
                /\ IF ~ExistsSync(fs, entry)
                   THEN Throw("ComponentEntryNotFound", opts.component)
                        /\ cur' = cur
                   ELSE /\ cur' = CallBuild(compDir, TmpPkgJson(opts.component))
                        /\ pc' = "buildPackage"
                        /\ error' = error
  /\ UNCHANGED <<fs, opts, configModule, config, pkgDirs, pkgIdx, calls,
                 inflight, exitCode>>

\* the all-packages loop: the next directory of pkgDirs, or the end
NextPackage ==
  /\ pc = "nextPackage"
  /\ IF pkgIdx <= Len(pkgDirs)
     THEN /\ cur' = CallBuild(pkgDirs[pkgIdx], ReadPkgJson(fs, pkgDirs[pkgIdx]))
          /\ pc' = "buildPackage"
          /\ exitCode' = exitCode
     ELSE /\ pc' = "done"
          /\ exitCode' = 0
          /\ cur' = cur
  /\ UNCHANGED <<fs, opts, configModule, config, pkgDirs, pkgIdx, compEntry,
                 calls, inflight, error>>

\* buildPackage, up to its loop over the formats
BuildPackage ==
  /\ pc = "buildPackage"
  /\ LET pkgName == PkgNameOf(cur.pkgDir, cur.pkgJson)
     IN  \E entry \in ResolveEntry(fs, cur.pkgDir, cur.pkgJson, config) :
           IF EntryMissing(entry)
           THEN Throw("EntryNotFound", pkgName)
                /\ cur' = [cur EXCEPT !.pkgName = pkgName]
           ELSE /\ cur' = [cur EXCEPT
                             !.pkgName = pkgName,
                             !.shortName = ShortNameOf(pkgName),
                             !.formats = FormatsOf(opts, config),
                             !.entry = entry,
                             !.externals = CollectExternals(cur.pkgJson, config),
                             !.configFile = ConfigFilePath(fs, cur.pkgDir),
                             !.fmtIdx = 1]
                /\ pc' = "formatLoop"
                /\ error' = error
  /\ UNCHANGED <<fs, opts, configModule, config, pkgDirs, pkgIdx, compEntry,
                 calls, inflight, exitCode>>

\* one turn of the loop over the formats: build(optsForVite) is called
StartBuild ==
  /\ pc = "formatLoop"
  /\ cur.fmtIdx <= Len(cur.formats)
  /\ calls' = Append(calls, Invocation(cur, cur.formats[cur.fmtIdx]))
  /\ inflight' = inflight + 1
  /\ pc' = AfterStart
  /\ UNCHANGED <<fs, opts, configModule, config, pkgDirs, pkgIdx, cur,
                 compEntry, error, exitCode>>

\* the bundler completes the invocation in flight
BuildResolved ==
  /\ pc = "awaitBuild"
  /\ calls' = [calls EXCEPT ![Len(calls)].status = "ok"]
  /\ inflight' = inflight - 1
  /\ cur' = [cur EXCEPT !.fmtIdx = @ + 1]
  /\ pc' = "formatLoop"
  /\ UNCHANGED <<fs, opts, configModule, config, pkgDirs, pkgIdx, compEntry,
                 error, exitCode>>

\* the bundler fails the invocation in flight: 'Build failed for', rethrown
BuildRejected ==
  /\ pc = "awaitBuild"
  /\ calls' = [calls EXCEPT ![Len(calls)].status = "failed"]
  /\ inflight' = inflight - 1
  /\ cur' = [cur EXCEPT !.fmtIdx = @ + 1]
  /\ error' = [kind |-> "BuildFailed", name |-> cur.pkgName]
  /\ pc' = AfterReject
  /\ UNCHANGED <<fs, opts, configModule, config, pkgDirs, pkgIdx, compEntry,
                 exitCode>>

\* buildPackage returns: the run is over, or the loop goes to the next package
ReturnFromBuild ==
  /\ pc = "formatLoop"
  /\ cur.fmtIdx > Len(cur.formats)
  /\ IF opts.component # <<>> \/ opts.pkg # <<>>
     THEN pc' = "done" /\ exitCode' = 0 /\ pkgIdx' = pkgIdx
     ELSE pc' = "nextPackage" /\ pkgIdx' = pkgIdx + 1 /\ exitCode' = exitCode
  /\ UNCHANGED <<fs, opts, configModule, config, pkgDirs, cur, compEntry,
                 calls, inflight, error>>

\* main().catch: the error is printed and the process exits with status 1
MainCatch ==
  /\ pc = "throwing"
  /\ exitCode' = 1
  /\ pc' = "exited"
  /\ UNCHANGED <<fs, opts, configModule, config, pkgDirs, pkgIdx, cur,
                 compEntry, calls, inflight, error>>

Next ==
  \/ LoadConfig
  \/ Main
  \/ BuildSingleComponent
  \/ NextPackage
  \/ BuildPackage
  \/ StartBuild
  \/ BuildResolved
  \/ BuildRejected
  \/ ReturnFromBuild
  \/ MainCatch

Spec == Init /\ [][Next]_vars

\* ------------------------------------------------------------- properties

\* buildPackage has done its entry search for cur.pkgDir (found or thrown)
Searched == cur.pkgDir # <<>> /\ pc # "buildPackage"

\* the candidates as the specification orders them, and the path of each
SpecCandidates == <<Get(cur.pkgJson, "module"), Get(cur.pkgJson, "main")>>
                    \o config.entryFiles

\* (a relative candidate is taken from the package directory; "./x" is x)
SpecCandidatePath(i) ==
  IF SpecCandidates[i][1] = "/" THEN SpecCandidates[i]
  ELSE cur.pkgDir \o SelectSeq(SpecCandidates[i], LAMBDA seg : seg # ".")

\* the candidates that are set and exist on disk
SpecLive ==
  {i \in 1..Len(SpecCandidates) :
     SpecCandidates[i] # <<>> /\ SpecCandidatePath(i) \in fs.files \cup fs.dirs}

\* C1: once buildPackage has searched, if any of module, main, entryFiles (in
\* this order, relative to the package directory unless absolute) exists, the
\* entry is the first of them that exists; in particular an existing module
\* path is the entry whatever else exists.
C1_EntryIsFirstExistingCandidate ==
  (Searched /\ SpecLive # {}) =>
     /\ \E i \in SpecLive : (\A j \in SpecLive : i <= j) /\ cur.entry = SpecCandidatePath(i)
     /\ (1 \in SpecLive => cur.entry = SpecCandidatePath(1))
     /\ error.kind # "EntryNotFound"

\* the module path is taken although main and an entryFiles name exist too
C1_Witness ==
  /\ pc = "formatLoop"
  /\ {1, 2} \subseteq SpecLive
  /\ \E i \in SpecLive : i > 2
  /\ cur.entry = SpecCandidatePath(1)

\* the names of the immediate entries of the package directory
SpecListing ==
  {p[Len(p)] : p \in {q \in fs.files \cup fs.dirs :
      Len(q) = Len(cur.pkgDir) + 1 /\ SubSeq(q, 1, Len(cur.pkgDir)) = cur.pkgDir}}

\* C2: when no module/main/entryFiles candidate exists and the package
\* directory lists no index.(ts|js|mjs|cjs|tsx), buildPackage fails with the
\* entry-not-found error naming the package and no bundler invocation is made
\* for that package.
C2_NoEntryFails ==
  (Searched /\ SpecLive = {}
     /\ SpecListing \cap {"index.ts", "index.js", "index.mjs", "index.cjs", "index.tsx"} = {})
  => /\ error.kind = "EntryNotFound"
     /\ error.name = (IF Get(cur.pkgJson, "name") # <<>> THEN cur.pkgJson.name
                      ELSE <<cur.pkgDir[Len(cur.pkgDir)]>>)
     /\ pc \in {"throwing", "exited"}
     /\ \A i \in 1..Len(calls) : calls[i].root # cur.pkgDir

\* a package whose manifest names a main that does not exist, in an empty
\* directory, has ended the run
C2_Witness ==
  /\ pc = "exited"
  /\ error.kind = "EntryNotFound"
  /\ Get(cur.pkgJson, "main") # <<>>
  /\ exitCode = 1

\* C3: the external list of every bundler invocation holds exactly the
\* peerDependencies names and the dependencies names for which
\* config.external is true (each once).
C3_ExternalsArePeersAndSelectedDeps ==
  \A i \in 1..Len(calls) :
    LET ext   == calls[i].build.rollupOptions.external
        peers == Range(Get(calls[i].pkgJson, "peerDependencies"))
        deps  == Range(Get(calls[i].pkgJson, "dependencies"))
    IN  /\ Range(ext) = peers \cup {d \in deps : CallExternal(config.external, d)}
        /\ Cardinality(Range(ext)) = Len(ext)

\* an invocation with a peer the predicate refuses (kept) and a dependency the
\* predicate refuses that is no peer (left out)
C3_Witness ==
  \E i \in 1..Len(calls) :
    LET ext   == Range(calls[i].build.rollupOptions.external)
        peers == Range(Get(calls[i].pkgJson, "peerDependencies"))
        deps  == Range(Get(calls[i].pkgJson, "dependencies"))
    IN  /\ \E d \in peers : ~CallExternal(config.external, d) /\ d \in ext
        /\ \E d \in deps \ peers : ~CallExternal(config.external, d) /\ d \notin ext
        /\ \E d \in deps \ peers : d \in ext

\* C4 (as claimed): no invocation's external list holds the package's own name.
C4_ExternalsExcludeOwnName ==
  \A i \in 1..Len(calls) :
    calls[i].pkgName \notin Range(calls[i].build.rollupOptions.external)

\* C5: a failed bundler invocation is the last one of the run: nothing is in
\* flight or started after it, the run is on its way out, and it ends with
\* exit status 1.
C5_FailFast ==
  \A i \in 1..Len(calls) :
    calls[i].status = "failed" =>
      /\ i = Len(calls)
      /\ inflight = 0
      /\ pc \in {"throwing", "exited"}
      /\ (pc = "exited" => exitCode = 1)
      /\ exitCode # 0

\* an all-packages run has ended on a failure with formats of the package and
\* packages of the run still to build
C5_Witness ==
  /\ pc = "exited"
  /\ exitCode = 1
  /\ opts.pkg = <<>> /\ opts.component = <<>>
  /\ Len(calls) > 0
  /\ calls[Len(calls)].status = "failed"
  /\ pkgIdx < Len(pkgDirs)
  /\ cur.fmtIdx <= Len(cur.formats)

\* the component directory, and the entry the claimed search order gives:
\* index.ts, else a .vue file found under src/, else src/index.ts
SpecCompDir == packagesDir \o <<"components">> \o opts.component

SpecSrcVueFiles ==
  {p \in fs.files \cup fs.dirs :
     /\ Len(p) = Len(SpecCompDir) + 2
     /\ SubSeq(p, 1, Len(SpecCompDir) + 1) = SpecCompDir \o <<"src">>
     /\ EndsWithVue(p[Len(p)])}

SpecComponentEntries ==
  IF SpecCompDir \o <<"index.ts">> \in fs.files \cup fs.dirs
  THEN {SpecCompDir \o <<"index.ts">>}
  ELSE IF SpecSrcVueFiles # {} THEN SpecSrcVueFiles
  ELSE IF SpecCompDir \o <<"src", "index.ts">> \in fs.files \cup fs.dirs
  THEN {SpecCompDir \o <<"src", "index.ts">>}
  ELSE {}

\* buildSingleComponent has done its search (in an existing component
\* directory: the search is what sets compEntry)
ComponentSearched == compEntry # <<>>

\* C6 (as claimed): for an existing component directory the entry is index.ts,
\* else a .vue file under src/, else src/index.ts; with none of them the build
\* fails naming the component and the bundler is not invoked.
C6_ComponentEntryOrder ==
  ComponentSearched =>
    IF SpecComponentEntries = {}
    THEN /\ error = [kind |-> "ComponentEntryNotFound", name |-> opts.component]
         /\ calls = <<>>
    ELSE /\ compEntry \in SpecComponentEntries
         /\ error.kind # "ComponentEntryNotFound"

\* the formats requested of every package of the run
SpecFormats == IF opts.formats # <<>> THEN opts.formats ELSE config.formats

\* the formats of the invocations made for directory d, in the order made
FormatsBuilt(d) ==
  LET ofD == SelectSeq(calls, LAMBDA c : c.root = d)
  IN  [i \in 1..Len(ofD) |-> ofD[i].format]

IsPrefix(s, t) == Len(s) <= Len(t) /\ s = SubSeq(t, 1, Len(s))

\* the position of directory d in pkgDirs (0 when it is not there)
PkgPos(d) ==
  IF d \in Range(pkgDirs) THEN CHOOSE i \in 1..Len(pkgDirs) : pkgDirs[i] = d ELSE 0

\* C7: at most one invocation is in flight and every earlier one has
\* completed; the invocations of a package follow the format list, once per
\* format; an invocation of another package starts only when the package
\* before it has had all its formats built, in the order of pkgDirs; a run
\* that ends well has built every format of every package.
C7_Sequential ==
  /\ inflight <= 1
  /\ inflight = Cardinality({i \in 1..Len(calls) : calls[i].status = "running"})
  /\ \A i \in 1..Len(calls) :
       /\ (i < Len(calls) => calls[i].status = "ok")
       /\ IsPrefix(FormatsBuilt(calls[i].root), SpecFormats)
       /\ \A j \in 1..Len(calls) :
            (i < j /\ calls[i].root # calls[j].root) =>
               /\ FormatsBuilt(calls[i].root) = SpecFormats
               /\ PkgPos(calls[i].root) < PkgPos(calls[j].root)
  /\ (pc = "done" /\ opts.pkg = <<>> /\ opts.component = <<>>) =>
       \A d \in Range(pkgDirs) : FormatsBuilt(d) = SpecFormats
  /\ (pc = "done" /\ cur.pkgDir # <<>>) => FormatsBuilt(cur.pkgDir) = SpecFormats

\* an all-packages run over at least two packages and two formats has ended
\* well
C7_Witness ==
  /\ pc = "done"
  /\ opts.pkg = <<>> /\ opts.component = <<>>
  /\ Len(pkgDirs) >= 2
  /\ Len(SpecFormats) >= 2
  /\ Len(calls) = Len(pkgDirs) * Len(SpecFormats)

\* config.vite?.build?.rollupOptions?.output, as the user supplied it
SpecUserOutput == Get(Get(Get(Get(config, "vite"), "build"), "rollupOptions"), "output")

\* C8 (as claimed): in every invocation lib, external and output.globals are
\* the computed values, whatever config.vite.build supplies for them, and every
\* other user-supplied output option is kept.
C8_ComputedFieldsOverride ==
  \A i \in 1..Len(calls) :
    LET b == calls[i].build
    IN  /\ b.lib.name = calls[i].pkgName[Len(calls[i].pkgName)]
        /\ b.lib.formats = <<calls[i].format>>
        /\ (calls[i].root = cur.pkgDir =>
              b.lib.entry = cur.entry /\ b.rollupOptions.external = cur.externals)
        /\ b.rollupOptions.output.globals = config.globals
        /\ \A k \in (DOMAIN SpecUserOutput) \ {"globals"} :
              b.rollupOptions.output[k] = SpecUserOutput[k]

\* C9 (as claimed): every invocation of a build target has the entry resolved
\* for the target: the package search's for a package, the component search's
\* for a single component.
C9_EntryResolvedOnce ==
  \A i \in 1..Len(calls) :
    calls[i].root = cur.pkgDir =>
      /\ calls[i].build.lib.entry = cur.entry
      /\ (opts.component # <<>> => calls[i].build.lib.entry = compEntry)

\* C10: in a single-component build every invocation's external list is empty.
C10_ComponentExternalsEmpty ==
  opts.component # <<>> =>
    \A i \in 1..Len(calls) : calls[i].build.rollupOptions.external = <<>>

\* a component invocation under a predicate that externalizes everything, with
\* globals configured and a components manifest that has dependencies and peers
C10_Witness ==
  /\ opts.component # <<>>
  /\ Len(calls) > 0
  /\ config.external = "all"
  /\ DOMAIN config.globals # {}
  /\ Get(fs.pkgJson[packagesDir \o <<"components">>], "peerDependencies") # <<>>
  /\ Get(fs.pkgJson[packagesDir \o <<"components">>], "dependencies") # <<>>

====
